---- MODULE Spec2Model ----
(***************************************************************************)
(* Model of src/ner_and_pos_tagging.py: a batch pipeline that loads a CSV  *)
(* of headlines, annotates the title column with a pretrained model,       *)
(* prints the five most common entity texts and writes the table back.     *)
(*                                                                         *)
(* A DataFrame is [cols |-> sequence of column names,                      *)
(*                 data |-> column name -> sequence of cell values].       *)
(* A cell read from the CSV is [str |-> text], [int |-> n] or [nan |-> T]; *)
(* a text is a sequence of words.  A derived cell is [list |-> pairs].     *)
(***************************************************************************)
EXTENDS Integers, Sequences, FiniteSets, TLC

\* ------------------------------------------------------------------ bounds
MaxRows == 3

\* --------------------------------------------------------------- constants
INPUT_FILE == "data/bbc_news.csv"
OUTPUT_FILE == "data/bbc_news_tagged.csv"
TopK == 5

\* ------------------------------------------------------------------ values
None == [none |-> TRUE]
NoExc == "none"

S(words) == [str |-> words]
I(n) == [int |-> n]
NaN == [nan |-> TRUE]
L(pairs) == [list |-> pairs]

\* The rows a parsed input CSV is built from (title, description).
InputRows ==
  { [title |-> S(<<"London", "Paris", "Berlin">>), description |-> S(<<"d1">>)],
    [title |-> S(<<"London", "Paris">>),           description |-> S(<<"d2">>)],
    [title |-> S(<<"London">>),                    description |-> S(<<"d3">>)],
    [title |-> S(<<"London">>),                    description |-> NaN],
    [title |-> S(<<"Rome", "Madrid", "Oslo">>),    description |-> S(<<"d4">>)],
    [title |-> S(<<"Berlin", "wins">>),            description |-> S(<<"d5">>)],
    [title |-> S(<<>>),                            description |-> S(<<"d6">>)],
    [title |-> I(7),                               description |-> S(<<"d7">>)],
    [title |-> NaN,                                description |-> I(7)],
    [title |-> S(<<"paris", "Paris">>),            description |-> S(<<"d9">>)] }

InputCols == <<"title", "description">>

RowSeqs == UNION { [1..n -> InputRows] : n \in 0..MaxRows }

\* pd.read_csv's result for a file holding the rows rs under the header.
Frame(rs) ==
  [cols |-> InputCols,
   data |-> [c \in {"title", "description"} |-> [i \in 1..Len(rs) |-> rs[i][c]]]]

InputTables == { Frame(rs) : rs \in RowSeqs }

NRows(t) == Len(t.data[t.cols[1]])

HasCol(t, c) == \E j \in 1..Len(t.cols) : t.cols[j] = c

\* -------------------------------------------------------------- load_data
\* What pd.read_csv(INPUT_FILE) meets on disk.
InputStates == {"ok", "missing", "denied", "directory"}

\* The exception pd.read_csv raises for a path in state st.
ReadCsvError(st) ==
  CASE st = "missing" -> "FileNotFoundError"
    [] st = "denied" -> "PermissionError"
    [] st = "directory" -> "IsADirectoryError"
    [] OTHER -> NoExc

\* A load_data without the except clause: every error of read_csv escapes.
load_data_uncaught(st, table) ==
  LET err == ReadCsvError(st) IN
  IF err = NoExc
    THEN [ret |-> table,
          out |-> << [msg |-> "Loaded", path |-> INPUT_FILE, rows |-> NRows(table)] >>,
          exc |-> NoExc]
    ELSE [ret |-> None, out |-> << >>, exc |-> err]

\* load_data(filepath): [ret, out, exc]; only FileNotFoundError is caught.
load_data(st, table) ==
  LET err == ReadCsvError(st) IN
  IF err = NoExc
    THEN [ret |-> table,
          out |-> << [msg |-> "Loaded", path |-> INPUT_FILE, rows |-> NRows(table)] >>,
          exc |-> NoExc]
    ELSE IF err = "FileNotFoundError"
      THEN [ret |-> None,
            out |-> << [msg |-> "FileNotFound", path |-> INPUT_FILE] >>,
            exc |-> NoExc]
      ELSE [ret |-> None, out |-> << >>, exc |-> err]

\* ------------------------------------------------------------ process_nlp
\* str(text): the textual form of a title cell.
Str(v) ==
  IF "str" \in DOMAIN v THEN v.str
  ELSE IF "int" \in DOMAIN v THEN << ToString(v.int) >>
  ELSE << "nan" >>

\* The pretrained model, as a fixed stand-in: one token per word, a word is
\* an entity when the recogniser knows it.
EntLabel ==
  [w \in {"London", "Paris", "Berlin", "Rome", "Madrid", "Oslo", "paris", "7"} |->
     IF w = "7" THEN "CARDINAL" ELSE "GPE"]

PosTag(w) ==
  CASE w \in {"London", "Paris", "Berlin", "Rome", "Madrid", "Oslo", "paris"} -> "PROPN"
    [] w = "wins" -> "VERB"
    [] w = "7" -> "NUM"
    [] OTHER -> "NOUN"

\* doc = nlp(text): the tokens and the entity spans of a text.
DocTokens(text) == text

DocEnts(text) == SelectSeq(text, LAMBDA w : w \in DOMAIN EntLabel)

\* extract_features(text): the pair (entities, pos_tags).
extract_features(v) ==
  LET doc == Str(v)
      ents == DocEnts(doc)
      toks == DocTokens(doc)
  IN << L([i \in 1..Len(ents) |-> << ents[i], EntLabel[ents[i]] >>]),
        L([i \in 1..Len(toks) |-> << toks[i], PosTag(toks[i]) >>]) >>

\* Series.apply(f): f on every value, in row order.
Apply(col) == [i \in 1..Len(col) |-> extract_features(col[i])]

Min(a, b) == IF a < b THEN a ELSE b

RECURSIVE MinLen(_)
MinLen(args) ==
  IF Len(args) = 0 THEN 0
  ELSE IF Len(args) = 1 THEN Len(args[1])
  ELSE Min(Len(args[1]), MinLen(Tail(args)))

\* Unpacking the results themselves, without zip(*...).
ZipNoTranspose(args) == args

\* zip(*args): the j-th result collects the j-th element of every argument;
\* no argument gives no result.
Zip(args) ==
  [j \in 1..MinLen(args) |-> [i \in 1..Len(args) |-> args[i][j]]]

\* df[name] = vals: replaces the column, or appends it to the schema.
SetColumn(t, name, vals) ==
  [cols |-> IF HasCol(t, name) THEN t.cols ELSE Append(t.cols, name),
   data |-> [c \in DOMAIN t.data \cup {name} |-> IF c = name THEN vals ELSE t.data[c]]]

\* A process_nlp that also stores str(title) back into the title column.
process_nlp_loaded_coerce(t) ==
  LET results == Apply(t.data["title"])
      zipped == Zip(results)
      started == << [msg |-> "Processing"] >>
      coerced == [i \in 1..NRows(t) |-> S(Str(t.data["title"][i]))]
  IN IF Len(zipped) # 2 \/ Len(zipped[1]) # NRows(t)
       THEN [ret |-> None, df |-> t, out |-> started, exc |-> "ValueError"]
       ELSE LET t2 == SetColumn(SetColumn(SetColumn(t, "title", coerced),
                                          "entities", zipped[1]), "pos_tags", zipped[2])
            IN [ret |-> t2, df |-> t2, out |-> started, exc |-> NoExc]

\* process_nlp(df) with the model loaded: [ret, df, out, exc].  The two
\* targets are unpacked from zip(*results) before either column is stored,
\* and a column is stored only when its length matches the index.
process_nlp_loaded(t) ==
  LET results == Apply(t.data["title"])
      zipped == Zip(results)
      started == << [msg |-> "Processing"] >>
  IN IF Len(zipped) # 2 \/ Len(zipped[1]) # NRows(t)
       THEN [ret |-> None, df |-> t, out |-> started, exc |-> "ValueError"]
       ELSE LET t2 == SetColumn(SetColumn(t, "entities", zipped[1]), "pos_tags", zipped[2])
            IN [ret |-> t2, df |-> t2, out |-> started, exc |-> NoExc]

\* A degraded process_nlp that adds the two columns with empty lists.
process_nlp_nomodel_empty_cols(t) ==
  LET empty == [i \in 1..NRows(t) |-> L(<< >>)]
      t2 == SetColumn(SetColumn(t, "entities", empty), "pos_tags", empty)
  IN [ret |-> t2, df |-> t2, out |-> << [msg |-> "ModelNotFound"] >>, exc |-> NoExc]

\* process_nlp(df) when spacy.load raises OSError.
process_nlp_nomodel(t) ==
  [ret |-> t, df |-> t, out |-> << [msg |-> "ModelNotFound"] >>, exc |-> NoExc]

process_nlp(t, available) ==
  IF available THEN process_nlp_loaded(t) ELSE process_nlp_nomodel(t)

\* ------------------------------------------------------------- show_stats
\* [ent[0] for row in df['entities'] for ent in row]
RECURSIVE Flatten(_)
Flatten(col) ==
  IF Len(col) = 0 THEN << >>
  ELSE [k \in 1..Len(col[1].list) |-> col[1].list[k][1]] \o Flatten(Tail(col))

\* Counter: a dict in insertion order, as a sequence of <<key, count>>.
CounterAdd(cnt, x) ==
  IF \E i \in 1..Len(cnt) : cnt[i][1] = x
    THEN [i \in 1..Len(cnt) |-> IF cnt[i][1] = x THEN << x, cnt[i][2] + 1 >> ELSE cnt[i]]
    ELSE Append(cnt, << x, 1 >>)

RECURSIVE CounterOf(_)
CounterOf(xs) ==
  IF Len(xs) = 0 THEN << >>
  ELSE CounterAdd(CounterOf(SubSeq(xs, 1, Len(xs) - 1)), xs[Len(xs)])

\* A sort step that puts an item before the items of equal count.
InsertDescUnstable(sorted, item) ==
  LET before == Cardinality({i \in 1..Len(sorted) : sorted[i][2] > item[2]})
  IN SubSeq(sorted, 1, before) \o << item >> \o SubSeq(sorted, before + 1, Len(sorted))

\* One step of a stable descending sort by count: the item goes after every
\* item whose count is at least its own.
InsertDesc(sorted, item) ==
  LET before == Cardinality({i \in 1..Len(sorted) : sorted[i][2] >= item[2]})
  IN SubSeq(sorted, 1, before) \o << item >> \o SubSeq(sorted, before + 1, Len(sorted))

RECURSIVE SortedDesc(_)
SortedDesc(items) ==
  IF Len(items) = 0 THEN << >>
  ELSE InsertDesc(SortedDesc(SubSeq(items, 1, Len(items) - 1)), items[Len(items)])

\* Counter.most_common(n) = heapq.nlargest(n, items, key=count)
\*                        = sorted(items, key=count, reverse=True)[:n]
most_common(cnt, n) == SubSeq(SortedDesc(cnt), 1, Min(n, Len(cnt)))

\* show_stats(df): [top, out, exc]; top is the local top_ents.
show_stats(t) ==
  IF ~HasCol(t, "entities")
    THEN [top |-> << >>, out |-> << >>, exc |-> "KeyError"]
    ELSE LET all_ents == Flatten(t.data["entities"]) IN
         IF Len(all_ents) = 0
           THEN [top |-> << >>, out |-> << [msg |-> "NoEntities"] >>, exc |-> NoExc]
           ELSE LET top_ents == most_common(CounterOf(all_ents), TopK) IN
                [top |-> top_ents,
                 out |-> << [msg |-> "Top5Header"] >> \o
                         [i \in 1..Len(top_ents) |->
                            [msg |-> "Entity", ent |-> top_ents[i][1], count |-> top_ents[i][2]]],
                 exc |-> NoExc]

\* ----------------------------------------------------------------- to_csv
\* The text of one cell: NaN is written empty, a list by its repr.
CsvCell(v) ==
  IF "str" \in DOMAIN v THEN v.str
  ELSE IF "int" \in DOMAIN v THEN << ToString(v.int) >>
  ELSE IF "nan" \in DOMAIN v THEN << >>
  ELSE << "repr", v.list >>

\* df.to_csv(path, index=False): the header line, then one line per row.
to_csv(t) ==
  [header |-> t.cols,
   rows |-> [i \in 1..NRows(t) |-> [j \in 1..Len(t.cols) |-> CsvCell(t.data[t.cols[j]][i])]]]

Absent == [absent |-> TRUE]
Stale == [header |-> << "title" >>, rows |-> << >>]

\* ------------------------------------------------------------------- main
VARIABLES inputState, inputTable, modelAvailable, outWritable,
          pc, df, df_tagged, top_ents, console, outFile, exc, trace

vars == << inputState, inputTable, modelAvailable, outWritable,
           pc, df, df_tagged, top_ents, console, outFile, exc, trace >>

env == << inputState, inputTable, modelAvailable, outWritable >>

Init ==
  /\ inputState \in InputStates
  /\ inputTable \in (IF inputState = "ok" THEN InputTables ELSE {None})
  /\ modelAvailable \in BOOLEAN
  /\ outWritable \in BOOLEAN
  /\ outFile \in {Absent, Stale}
  /\ pc = "main"
  /\ df = None
  /\ df_tagged = None
  /\ top_ents = << >>
  /\ console = << >>
  /\ exc = NoExc
  /\ trace = << >>

\* A main that may write before the statistics are shown.
ReadyWriteEarly(stage, p) ==
  CASE stage = "load_data" -> p = "main"
    [] stage = "process_nlp" -> p = "loaded"
    [] stage = "show_stats" -> p = "processed"
    [] stage = "to_csv" -> p \in {"processed", "stats"}
    [] stage = "saved" -> p = "written"
    [] OTHER -> FALSE

\* The point of main at which a stage is called.
Ready(stage, p) ==
  CASE stage = "load_data" -> p = "main"
    [] stage = "process_nlp" -> p = "loaded"
    [] stage = "show_stats" -> p = "processed"
    [] stage = "to_csv" -> p = "stats"
    [] stage = "saved" -> p = "written"
    [] OTHER -> FALSE

\* df = load_data(INPUT_FILE); if df is not None: ...
MainLoadData ==
  /\ Ready("load_data", pc)
  /\ LET r == load_data(inputState, inputTable) IN
       /\ df' = r.ret
       /\ console' = console \o r.out
       /\ exc' = r.exc
       /\ pc' = IF r.exc # NoExc THEN "aborted"
                ELSE IF r.ret # None THEN "loaded" ELSE "done"
  /\ trace' = Append(trace, "load_data")
  /\ UNCHANGED << env, df_tagged, top_ents, outFile >>

\* df_tagged = process_nlp(df); df is the same object and is changed with it.
MainProcessNlp ==
  /\ Ready("process_nlp", pc)
  /\ LET r == process_nlp(df, modelAvailable) IN
       /\ df' = r.df
       /\ df_tagged' = r.ret
       /\ console' = console \o r.out
       /\ exc' = r.exc
       /\ pc' = IF r.exc # NoExc THEN "aborted" ELSE "processed"
  /\ trace' = Append(trace, "process_nlp")
  /\ UNCHANGED << env, top_ents, outFile >>

\* show_stats(df_tagged)
MainShowStats ==
  /\ Ready("show_stats", pc)
  /\ LET r == show_stats(df_tagged) IN
       /\ top_ents' = r.top
       /\ console' = console \o r.out
       /\ exc' = r.exc
       /\ pc' = IF r.exc # NoExc THEN "aborted" ELSE "stats"
  /\ trace' = Append(trace, "show_stats")
  /\ UNCHANGED << env, df, df_tagged, outFile >>

\* df_tagged.to_csv(OUTPUT_FILE, index=False); an unwritable destination
\* raises OSError, which nothing in main catches.
MainToCsv ==
  /\ Ready("to_csv", pc)
  /\ IF outWritable
       THEN /\ outFile' = to_csv(df_tagged)
            /\ exc' = NoExc
            /\ pc' = "written"
       ELSE /\ outFile' = outFile
            /\ exc' = "OSError"
            /\ pc' = "aborted"
  /\ trace' = Append(trace, "to_csv")
  /\ UNCHANGED << env, df, df_tagged, top_ents, console >>

\* print("Processed data saved successfully to: ...")
MainPrintSaved ==
  /\ Ready("saved", pc)
  /\ console' = Append(console, [msg |-> "Saved", path |-> OUTPUT_FILE])
  /\ pc' = "done"
  /\ trace' = Append(trace, "saved")
  /\ UNCHANGED << env, df, df_tagged, top_ents, outFile, exc >>

Next ==
  \/ MainLoadData
  \/ MainProcessNlp
  \/ MainShowStats
  \/ MainToCsv
  \/ MainPrintSaved

Spec == Init /\ [][Next]_vars

TypeOK ==
  /\ pc \in {"main", "loaded", "processed", "stats", "written", "done", "aborted"}
  /\ exc \in {NoExc, "PermissionError", "IsADirectoryError", "ValueError", "KeyError", "OSError"}

\* ---------------------------------------------------------------- helpers
Called(stage) == \E i \in 1..Len(trace) : trace[i] = stage

Printed(m) == \E i \in 1..Len(console) : console[i].msg = m

LastStage == IF Len(trace) = 0 THEN "none" ELSE trace[Len(trace)]

StageOrder == << "load_data", "process_nlp", "show_stats", "to_csv", "saved" >>

NotFoundReport == << [msg |-> "FileNotFound", path |-> INPUT_FILE] >>

\* ------------------------------------------------------------------ claims

\* C1: with the model unavailable, show_stats does not raise and prints the
\* no-entities notice, and a finished run has written a file without the
\* entities and pos_tags columns.
C1_DegradedRunCompletes ==
  (~modelAvailable /\ Called("show_stats"))
    => /\ exc # "KeyError"
       /\ Printed("NoEntities")
       /\ pc \in {"written", "done"} =>
            /\ outFile.header = inputTable.cols
            /\ Len(outFile.rows) = NRows(inputTable)

\* C2: with a missing input, load_data prints the not-found message for the
\* path and returns None, main calls no later stage, and the output file is
\* never created or modified.
C2_MissingInputNoOutput ==
  [][inputState = "missing"
       => /\ outFile' = outFile
          /\ df' = None
          /\ console' = NotFoundReport
          /\ trace' = << "load_data" >>
          /\ exc' = NoExc
          /\ pc' = "done"]_vars

C2_Witness ==
  /\ inputState = "missing"
  /\ pc = "done"
  /\ console = NotFoundReport
  /\ outFile = Stale

\* C3: a written file has one line per input row, in input order, and under
\* every input column the text of the input's value for that row.
C3_RowsPreserved ==
  (inputState = "ok" /\ pc \in {"written", "done"})
    => /\ Len(outFile.rows) = NRows(inputTable)
       /\ \A j \in 1..Len(inputTable.cols) :
            /\ outFile.header[j] = inputTable.cols[j]
            /\ \A i \in 1..NRows(inputTable) :
                 outFile.rows[i][j] = CsvCell(inputTable.data[inputTable.cols[j]][i])

C3_Witness ==
  /\ pc = "written"
  /\ NRows(inputTable) >= 2
  /\ inputTable.data["title"][1] = NaN
  /\ inputTable.data["title"][2] # NaN
  /\ Len(outFile.rows) = NRows(inputTable)

\* The positions <<row, index>> of the entities column, in row-major order.
EntPositions(col) ==
  UNION { { << i, k >> : k \in 1..Len(col[i].list) } : i \in 1..Len(col) }

Earlier(p, q) == p[1] < q[1] \/ (p[1] = q[1] /\ p[2] < q[2])

\* The ranking the report is meant to show: distinct texts by count
\* descending, ties by first occurrence, cut to the first TopK.
RefTop(col) ==
  LET pos == EntPositions(col)
      textAt(p) == col[p[1]].list[p[2]][1]
      texts == { textAt(p) : p \in pos }
      count(x) == Cardinality({ p \in pos : textAt(p) = x })
      first(x) == CHOOSE p \in pos :
                    /\ textAt(p) = x
                    /\ \A q \in pos : textAt(q) = x => (q = p \/ Earlier(p, q))
      ahead(x) == { y \in texts :
                      \/ count(y) > count(x)
                      \/ (count(y) = count(x) /\ Earlier(first(y), first(x))) }
  IN [r \in 1..Min(TopK, Cardinality(texts)) |->
        LET x == CHOOSE x \in texts : Cardinality(ahead(x)) = r - 1
        IN << x, count(x) >>]

\* C4: the list show_stats computes is the reference ranking of the entity
\* texts of the annotated table.
C4_TopEntitiesMatchReference ==
  (Called("show_stats") /\ HasCol(df_tagged, "entities"))
    => top_ents = RefTop(df_tagged.data["entities"])

C4_Witness ==
  /\ pc = "stats"
  /\ Len(top_ents) = TopK
  /\ Len(CounterOf(Flatten(df_tagged.data["entities"]))) > TopK
  /\ top_ents[1][2] = 2
  /\ top_ents[2][2] = top_ents[3][2]

\* C5: with the model available and at least one row, entities[i] and
\* pos_tags[i] are the model's entity pairs and token pairs for the text of
\* row i's title, one pos pair per token.
C5_AnnotationsAligned ==
  (modelAvailable /\ Called("process_nlp") /\ NRows(inputTable) >= 1)
    => /\ df_tagged # None
       /\ NRows(df_tagged) = NRows(inputTable)
       /\ \A i \in 1..NRows(inputTable) :
            LET text == Str(inputTable.data["title"][i])
                ents == df_tagged.data["entities"][i].list
                tags == df_tagged.data["pos_tags"][i].list
            IN /\ Len(ents) = Len(DocEnts(text))
               /\ \A k \in 1..Len(ents) :
                    ents[k] = << DocEnts(text)[k], EntLabel[DocEnts(text)[k]] >>
               /\ Len(tags) = Len(DocTokens(text))
               /\ \A k \in 1..Len(tags) :
                    tags[k] = << DocTokens(text)[k], PosTag(DocTokens(text)[k]) >>

C5_Witness ==
  /\ modelAvailable
  /\ pc = "processed"
  /\ NRows(inputTable) = 2
  /\ inputTable.data["title"][1] = I(7)
  /\ df_tagged.data["entities"][1] = L(<< << "7", "CARDINAL" >> >>)
  /\ df_tagged.data["entities"][2] = L(<< >>)
  /\ Len(df_tagged.data["pos_tags"][2].list) = 1

\* C6: with the model unavailable, process_nlp returns the table it was
\* given: same rows, same columns, same values, no entities or pos_tags.
C6_DegradedIdentity ==
  (~modelAvailable /\ Called("process_nlp"))
    => /\ df_tagged = inputTable
       /\ df = inputTable
       /\ ~HasCol(df_tagged, "entities")
       /\ ~HasCol(df_tagged, "pos_tags")

C6_Witness ==
  /\ ~modelAvailable
  /\ pc = "processed"
  /\ NRows(df_tagged) >= 1
  /\ Printed("ModelNotFound")

\* C7: an input path that exists but cannot be read ends like a missing
\* one: the not-found message is printed, load_data returns None, the run
\* ends without an exception and without output.
C7_UnreadableInputReportedNotFound ==
  (inputState \in {"denied", "directory"} /\ Called("load_data"))
    => /\ exc = NoExc
       /\ console = NotFoundReport
       /\ pc = "done"

\* C8: a failing write is reported as an IOFailure message and no exception
\* leaves the write step; the save confirmation is not printed.
C8_WriteFailureReported ==
  (~outWritable /\ Called("to_csv"))
    => /\ exc = NoExc
       /\ Printed("IOFailure")
       /\ ~Printed("Saved")

\* C9: every step of main starts from a point no exception has ended, the
\* stages called so far are a prefix of load_data, process_nlp, show_stats,
\* to_csv, save confirmation, and the confirmation follows a completed write.
C9_StagesInOrder ==
  [][/\ exc = NoExc
     /\ Len(trace') = Len(trace) + 1
     /\ Len(trace') <= Len(StageOrder)
     /\ \A i \in 1..Len(trace') : trace'[i] = StageOrder[i]
     /\ Printed("Saved")' => (Called("to_csv")' /\ outFile' = to_csv(df_tagged'))]_vars

C9_Witness ==
  /\ pc = "done"
  /\ trace = StageOrder
  /\ Printed("Saved")

\* C10: a table with a title column and no rows, with the model available,
\* gets empty entities and pos_tags columns without an error, show_stats
\* prints the no-entities notice, and the written file has the extended
\* header and no lines.
C10_EmptyTableAnnotated ==
  (inputState = "ok" /\ modelAvailable /\ outWritable /\ NRows(inputTable) = 0
     /\ Called("process_nlp"))
    => /\ exc = NoExc
       /\ df_tagged.cols = inputTable.cols \o << "entities", "pos_tags" >>
       /\ NRows(df_tagged) = 0
       /\ Called("show_stats") => Printed("NoEntities")
       /\ pc \in {"written", "done"} =>
            outFile = [header |-> df_tagged.cols, rows |-> << >>]

====
